---- MODULE Spec2Model ----
(***************************************************************************)
(* A model of the demo HTTP service of src/main.rs: the start-up sequence  *)
(* of main, the warp route table (health, query, hello), the header        *)
(* logging filter, the three handlers, the sqlx connection pool the query  *)
(* handler draws from, and the batch span exporter.                        *)
(***************************************************************************)
EXTENDS Integers, Sequences, FiniteSets, TLC

VARIABLES
    commit,     \* built_info::GIT_COMMIT_HASH, an Option: <<>> is None, <<h>> is Some(h)
    pc,         \* where main is
    exit_code,  \* the process's exit code, -1 while it runs
    tracer,     \* the global tracer provider: "none", "installed", "shutdown"
    listening,  \* whether warp::serve has bound the port (it has started serving)
    spans,      \* the batch span processor: spans ended, buffered, exported
    pools,      \* the connection pools, by pool identity
    table,      \* the bookings table of the database
    req         \* the requests in flight, by connection slot

vars == <<commit, pc, exit_code, tracer, listening, spans, pools, table, req>>

----------------------------------------------------------------------------
(* Bounds of the model *)

\* connection slots of the routing scenarios
NumReq == 2
\* requests beyond max_connections in the pool scenarios
ExtraReq == 1
\* longest commit hash drawn for the build
MaxHashLen == 8
\* rows beyond LIMIT the bookings table may hold
ExtraRows == 1
\* longest header list of a request in the header scenarios
MaxHeaders == 3

(* Program constants *)

MAX_CONNECTIONS == 5
ACQUIRE_TIMEOUT == 5
LIMIT == 10
SHORT_LEN == 7
EXIT_OK == 0
EXIT_ERR == 1
EXIT_USAGE == 2
EXIT_PANIC == 101
STATUS_OK == 200

----------------------------------------------------------------------------
(* Build-time values *)

\* the characters a commit hash is drawn from, in the order used for the
\* hashes of the model: the hash of length n is the first n of them
HashChars == <<"a", "1", "b", "2", "c", "3", "d", "4", "e", "5", "f", "6">>

Commits == {<<>>} \cup {<<SubSeq(HashChars, 1, n)>> : n \in (SHORT_LEN - 2)..MaxHashLen}

PLACEHOLDER == <<":", "-", "(">>

GIT_COMMIT_HASH == IF commit = <<>> THEN PLACEHOLDER ELSE commit[1]

CARGO_PKG_NAME == "name"
CARGO_PKG_VERSION == "version"

HTML == <<"<html><body>Hi: ", "{}", "</body></html>">>

----------------------------------------------------------------------------
(* The route table of main *)

\* let hello = warp::get().and(log_headers()).and_then(hello)
hello_route ==
    [method |-> "GET", segment |-> <<>>, filters |-> {"log_headers"}, handler |-> "hello"]

\* a query route with log_headers() in its chain
query_route_logged ==
    [method |-> "GET", segment |-> <<"query">>, filters |-> {"db", "log_headers"},
     handler |-> "query"]

\* let query = warp::get().and(warp::path("query")).and(db.clone()).and_then(query)
query_route ==
    [method |-> "GET", segment |-> <<"query">>, filters |-> {"db"}, handler |-> "query"]

\* a health route built on warp::get() in place of warp::any()
health_route_get_only ==
    [method |-> "GET", segment |-> <<"health">>, filters |-> {}, handler |-> "health"]

\* let health = warp::any().and(warp::path("health")).and_then(health)
health_route ==
    [method |-> "ANY", segment |-> <<"health">>, filters |-> {}, handler |-> "health"]

\* the routes combined as hello.or(health).or(query)
routes_hello_first == <<hello_route, health_route, query_route>>

\* let routes = health.or(query).or(hello)
routes == <<health_route, query_route, hello_route>>

\* warp::get() / warp::any(), then warp::path(seg): the method filter, then the
\* first path segment (a route without a path filter takes every path)
Matches(rt, m, p) ==
    /\ rt.method = "ANY" \/ rt.method = m
    /\ rt.segment = <<>> \/ (Len(p) >= 1 /\ p[1] = rt.segment[1])

\* a.or(b): the first route that does not reject the request; 0 when all reject
FirstMatch(rts, m, p) ==
    LET hits == {i \in DOMAIN rts : Matches(rts[i], m, p)}
    IN  IF hits = {} THEN 0 ELSE CHOOSE i \in hits : \A j \in hits : i <= j

----------------------------------------------------------------------------
(* health *)

\* if GIT_COMMIT_HASH.len() > 7 { &GIT_COMMIT_HASH[0..7] } else { "" }
short_hash(hash) ==
    IF Len(hash) > SHORT_LEN THEN SubSeq(hash, 1, SHORT_LEN) ELSE <<>>

\* format!("{}:{}:{}", name, version, short_hash)
x_app(hash) == <<CARGO_PKG_NAME, ":", CARGO_PKG_VERSION, ":">> \o short_hash(hash)

NoResp == [status |-> 0, header |-> <<>>, value |-> <<>>, body |-> <<>>]

\* Response::builder().header("X-App", ...).body(GIT_COMMIT_HASH)
health_response(hash) ==
    [status |-> STATUS_OK, header |-> <<"X-App">>, value |-> x_app(hash), body |-> hash]

----------------------------------------------------------------------------
(* hello *)

\* HTML.replace("{}", origin)
Replace(tpl, from, to) == [i \in DOMAIN tpl |-> IF tpl[i] = from THEN to ELSE tpl[i]]

\* warp::reply::html(rs)
hello_response(origin) ==
    [status |-> STATUS_OK, header |-> <<"content-type">>, value |-> <<"text/html">>,
     body |-> Replace(HTML, "{}", origin)]

----------------------------------------------------------------------------
(* log_headers: the header map *)

\* String::from_utf8_lossy(v.as_bytes()): a byte that is no UTF-8 becomes U+FFFD
from_utf8_lossy(v) == [i \in DOMAIN v |-> IF v[i] = "xFF" THEN "uFFFD" ELSE v[i]]

EmptyMap == [k \in {} |-> <<>>]

\* header_hashmap.insert(k, v): the value replaces the one the map holds
insert(m, k, v) == [n \in DOMAIN m \cup {k} |-> IF n = k THEN v ELSE m[n]]

\* header_hashmap.entry(k).or_insert(v)
or_insert(m, k, v) ==
    IF k \in DOMAIN m THEN m
    ELSE [n \in DOMAIN m \cup {k} |-> IF n = k THEN v ELSE m[n]]

\* for (k, v) in headers.iter() { ... }, from entry i on
RECURSIVE collect(_, _, _)
collect(m, headers, i) ==
    IF i > Len(headers) THEN m
    ELSE collect(or_insert(m, headers[i][1], from_utf8_lossy(headers[i][2])),
                 headers, i + 1)

header_hashmap_of(headers) == collect(EmptyMap, headers, 1)

----------------------------------------------------------------------------
(* query: the SQL statement and the row mapping *)

\* ORDER BY total_amount asc
Precedes_asc(s, i, j, tie) ==
    \/ s[i].total_amount < s[j].total_amount
    \/ /\ s[i].total_amount = s[j].total_amount
       /\ IF tie = "first" THEN i < j ELSE i > j

\* ORDER BY total_amount desc: row i comes before row j; among equal amounts
\* the engine keeps either the stored order or its reverse
Precedes(s, i, j, tie) ==
    \/ s[i].total_amount > s[j].total_amount
    \/ /\ s[i].total_amount = s[j].total_amount
       /\ IF tie = "first" THEN i < j ELSE i > j

\* the rows of s in that order: the k-th is the row k - 1 rows come before
order_by_desc(s, tie) ==
    [k \in 1..Len(s) |->
        s[CHOOSE i \in DOMAIN s :
            Cardinality({j \in DOMAIN s : Precedes(s, j, i, tie)}) = k - 1]]

\* LIMIT n
limit(s, n) == IF Len(s) > n THEN SubSeq(s, 1, n) ELSE s

\* SELECT * FROM bookings ORDER BY total_amount desc LIMIT 10
select_top(rows, tie) == limit(order_by_desc(rows, tie), LIMIT)

\* Bookings { id: book_ref, date: book_date, total: total_amount }
to_booking(r) == [id |-> r.book_ref, date |-> r.book_date, total |-> r.total_amount]

\* rows.iter().map(...).collect(), then warp::reply::json(&x)
query_response(rows) ==
    [status |-> STATUS_OK, header |-> <<"content-type">>, value |-> <<"application/json">>,
     body |-> [i \in DOMAIN rows |-> to_booking(rows[i])]]

----------------------------------------------------------------------------
(* The connection pool *)

\* PgPoolOptions::new()...connect(..): a pool not yet connected, and the pool
\* connect returns, which holds the one connection it opened
ClosedPool == [open |-> FALSE, idle |-> 0, busy |-> {}]
ConnectedPool == [open |-> TRUE, idle |-> 1, busy |-> {}]

\* the pool main builds
MainPool == 0

\* a pool built anew for each request in place of the clone
db_own(r) == r

\* let db = warp::any().map(move || pool.clone()): the pool handed to the handler
\* of request r; a clone of a Pool is another handle on the same pool
db(r) == MainPool

\* the connections a pool holds open, idle or checked out
Size(pl) == pl.idle + Cardinality(pl.busy)

\* .max_connections(5): a connection may be opened while fewer are open
MayOpen(pl) == Size(pl) < MAX_CONNECTIONS

\* a request can be given a connection: an idle one, or a new one
CanAcquire(pl) == pl.idle > 0 \/ MayOpen(pl)

\* check a connection out for request r (an idle one first)
Checkout(pl, r) ==
    [pl EXCEPT !.idle = IF pl.idle > 0 THEN pl.idle - 1 ELSE 0,
               !.busy = pl.busy \cup {r}]

\* the connection of request r goes back to the pool, or is closed when broken
Release(pl, r, keep) ==
    [pl EXCEPT !.idle = IF keep THEN pl.idle + 1 ELSE pl.idle,
               !.busy = pl.busy \ {r}]

----------------------------------------------------------------------------
(* Requests *)

Methods == {"GET", "POST"}
Paths == {<<>>, <<"health">>, <<"query">>, <<"health", "live">>, <<"other">>}

IdleReq ==
    [method |-> "-", path |-> <<>>, headers |-> <<>>, step |-> "idle", handler |-> "-",
     ran |-> <<>>, logged |-> 0, header_hashmap |-> EmptyMap, resp |-> NoResp,
     waited |-> 0]

Running == exit_code = -1
Serving == Running /\ pc = "serving"

NoSpans == [ended |-> 0, buffered |-> 0, exported |-> 0]

\* the rows the bookings table holds in the scenarios that do not vary it
Row(i, amount) == [book_ref |-> i, book_date |-> 100 - i, total_amount |-> amount]
Fixture == <<Row(1, 50000), Row(2, 10000), Row(3, 99999)>>

----------------------------------------------------------------------------
(* main *)

Exit(code) == exit_code' = code /\ pc' = pc

\* let _ = init_tracer().unwrap();
init_tracer(ok) ==
    /\ Running /\ pc = "init_tracer"
    /\ IF ok
       THEN tracer' = "installed" /\ pc' = "get_matches" /\ exit_code' = exit_code
       ELSE tracer' = tracer /\ Exit(EXIT_PANIC)
    /\ UNCHANGED <<commit, listening, spans, pools, table, req>>

\* Command::new("demo").version(..).arg(port).get_matches(): clap prints and
\* exits 0 on --help and --version, and exits 2 on a command line it rejects
get_matches(args) ==
    /\ Running /\ pc = "get_matches"
    /\ CASE args = "port" -> pc' = "connect" /\ exit_code' = exit_code
         [] args \in {"help", "version"} -> Exit(EXIT_OK)
         [] OTHER -> Exit(EXIT_USAGE)
    /\ UNCHANGED <<commit, tracer, listening, spans, pools, table, req>>

\* a connect whose error is dropped in place of the ?
connect_unchecked(ok) ==
    /\ Running /\ pc = "connect"
    /\ pools' = IF ok THEN [pools EXCEPT ![MainPool] = ConnectedPool] ELSE pools
    /\ pc' = "serve" /\ exit_code' = exit_code
    /\ UNCHANGED <<commit, tracer, listening, spans, table, req>>

\* let pool = PgPoolOptions::new()...connect(..).await?;
connect(ok) ==
    /\ Running /\ pc = "connect"
    /\ IF ok
       THEN /\ pools' = [pools EXCEPT ![MainPool] = ConnectedPool]
            /\ pc' = "serve" /\ exit_code' = exit_code
       ELSE pools' = pools /\ Exit(EXIT_ERR)
    /\ UNCHANGED <<commit, tracer, listening, spans, table, req>>

\* warp::serve(routes).run((addr, port)): binding the port, which panics on failure
bind(ok) ==
    /\ Running /\ pc = "serve"
    /\ IF ok
       THEN listening' = TRUE /\ pc' = "serving" /\ exit_code' = exit_code
       ELSE listening' = listening /\ Exit(EXIT_PANIC)
    /\ UNCHANGED <<commit, tracer, spans, pools, table, req>>

\* warp::serve(routes).run((addr, port)).await returns
run_returns ==
    /\ Serving
    /\ pc' = "shutdown"
    /\ UNCHANGED <<commit, exit_code, tracer, listening, spans, pools, table, req>>

\* the batch span processor hands its buffer to the exporter
Flush(sp) == [sp EXCEPT !.buffered = 0, !.exported = sp.exported + sp.buffered]

\* main returning without the call of shutdown_tracer_provider
shutdown_skipped ==
    /\ Running /\ pc = "shutdown"
    /\ pc' = "return"
    /\ UNCHANGED <<commit, exit_code, tracer, listening, spans, pools, table, req>>

\* shutdown_tracer_provider();
shutdown_tracer_provider ==
    /\ Running /\ pc = "shutdown"
    /\ spans' = Flush(spans)
    /\ tracer' = "shutdown"
    /\ pc' = "return"
    /\ UNCHANGED <<commit, exit_code, listening, pools, table, req>>

\* Ok(())
main_returns ==
    /\ Running /\ pc = "return"
    /\ Exit(EXIT_OK)
    /\ UNCHANGED <<commit, tracer, listening, spans, pools, table, req>>

\* install_batch(opentelemetry::runtime::Tokio): the exporter task sends a batch
export ==
    /\ Running /\ tracer = "installed" /\ spans.buffered > 0
    /\ spans' = Flush(spans)
    /\ UNCHANGED <<commit, pc, exit_code, tracer, listening, pools, table, req>>

----------------------------------------------------------------------------
(* Serving a request *)

\* a request arrives and the filters of routes are tried in order: the request
\* is rejected, or goes to the first route that takes it
accept(r, m, p, h) ==
    /\ Serving /\ req[r].step = "idle"
    /\ LET i == FirstMatch(routes, m, p)
           rq == [IdleReq EXCEPT !.method = m, !.path = p, !.headers = h]
       IN  req' = [req EXCEPT ![r] =
                IF i = 0 THEN [rq EXCEPT !.step = "rejected"]
                ELSE [rq EXCEPT !.handler = routes[i].handler,
                                !.step = IF "log_headers" \in routes[i].filters
                                         THEN "log_headers" ELSE "handler"]]
    /\ UNCHANGED <<commit, pc, exit_code, tracer, listening, spans, pools, table>>

\* the closure of log_headers: build the map, start the child span, print the
\* JSON line, end the span; the filter extracts nothing
log_headers(r) ==
    /\ Serving /\ req[r].step = "log_headers"
    /\ req' = [req EXCEPT ![r].header_hashmap = header_hashmap_of(req[r].headers),
                          ![r].logged = @ + 1,
                          ![r].step = "handler"]
    /\ spans' = [spans EXCEPT !.ended = @ + 1, !.buffered = @ + 1]
    /\ UNCHANGED <<commit, pc, exit_code, tracer, listening, pools, table>>

\* async fn hello(): the call to the IP service answers with an origin, or an
\* unwrap panics and the request ends without a response
hello(r, origin) ==
    /\ Serving /\ req[r].step = "handler" /\ req[r].handler = "hello"
    /\ req' = [req EXCEPT ![r].ran = Append(@, "hello"),
                          ![r].resp = IF origin = "" THEN NoResp
                                      ELSE hello_response(origin),
                          ![r].step = IF origin = "" THEN "panicked" ELSE "done"]
    /\ UNCHANGED <<commit, pc, exit_code, tracer, listening, spans, pools, table>>

\* async fn health()
health(r) ==
    /\ Serving /\ req[r].step = "handler" /\ req[r].handler = "health"
    /\ req' = [req EXCEPT ![r].ran = Append(@, "health"),
                          ![r].resp = health_response(GIT_COMMIT_HASH),
                          ![r].step = "done"]
    /\ UNCHANGED <<commit, pc, exit_code, tracer, listening, spans, pools, table>>

\* async fn query(db), up to fetch_all asking the pool for a connection: it gets
\* one (opening a new one may fail, and expect panics), or waits for one
query(r, ok) ==
    /\ Serving /\ req[r].step = "handler" /\ req[r].handler = "query"
    /\ LET p == db(r) IN
       IF CanAcquire(pools[p])
       THEN IF ok \/ pools[p].idle > 0
            THEN /\ pools' = [pools EXCEPT ![p] = Checkout(@, r)]
                 /\ req' = [req EXCEPT ![r].ran = Append(@, "query"),
                                       ![r].step = "fetch"]
            ELSE /\ pools' = pools
                 /\ req' = [req EXCEPT ![r].ran = Append(@, "query"),
                                       ![r].step = "panicked"]
       ELSE /\ pools' = pools
            /\ req' = [req EXCEPT ![r].ran = Append(@, "query"),
                                  ![r].step = "acquire", ![r].waited = 0]
    /\ UNCHANGED <<commit, pc, exit_code, tracer, listening, spans, table>>

\* a waiting request is given a connection
acquire(r) ==
    /\ Serving /\ req[r].step = "acquire"
    /\ CanAcquire(pools[db(r)])
    /\ pools' = [pools EXCEPT ![db(r)] = Checkout(@, r)]
    /\ req' = [req EXCEPT ![r].step = "fetch", ![r].waited = 0]
    /\ UNCHANGED <<commit, pc, exit_code, tracer, listening, spans, table>>

\* a pool without acquire timeout
TimedOut_never(w) == FALSE

\* .acquire_timeout(Duration::new(5, 0)): the wait is over
TimedOut(w) == w >= ACQUIRE_TIMEOUT

\* the wait of a request times out: fetch_all fails and expect panics
acquire_timeout(r) ==
    /\ Serving /\ req[r].step = "acquire"
    /\ TimedOut(req[r].waited)
    /\ req' = [req EXCEPT ![r].step = "panicked"]
    /\ UNCHANGED <<commit, pc, exit_code, tracer, listening, spans, pools, table>>

\* a second passes for the requests that wait for a connection
tick ==
    /\ Serving
    /\ \E r \in DOMAIN req : req[r].step = "acquire"
    /\ \A r \in DOMAIN req : req[r].step = "acquire" => ~TimedOut(req[r].waited)
    /\ req' = [r \in DOMAIN req |->
                IF req[r].step = "acquire" THEN [req[r] EXCEPT !.waited = @ + 1]
                ELSE req[r]]
    /\ UNCHANGED <<commit, pc, exit_code, tracer, listening, spans, pools, table>>

\* fetch_all answers with the rows, which are mapped and sent as JSON
fetch(r, tie) ==
    /\ Serving /\ req[r].step = "fetch"
    /\ pools' = [pools EXCEPT ![db(r)] = Release(@, r, TRUE)]
    /\ req' = [req EXCEPT ![r].resp = query_response(select_top(table, tie)),
                          ![r].step = "done"]
    /\ UNCHANGED <<commit, pc, exit_code, tracer, listening, spans, table>>

\* fetch_all fails and expect("some error") panics; the connection is dropped
\* back to the pool, or closed
fetch_fails(r, keep) ==
    /\ Serving /\ req[r].step = "fetch"
    /\ pools' = [pools EXCEPT ![db(r)] = Release(@, r, keep)]
    /\ req' = [req EXCEPT ![r].step = "panicked"]
    /\ UNCHANGED <<commit, pc, exit_code, tracer, listening, spans, table>>

\* .idle_timeout(Duration::new(60, 0)): an idle connection is closed
reap ==
    /\ Serving /\ pools[MainPool].idle > 0
    /\ pools' = [pools EXCEPT ![MainPool].idle = @ - 1]
    /\ UNCHANGED <<commit, pc, exit_code, tracer, listening, spans, table, req>>

\* the connection slot of a finished request takes the next request
next_request(r) ==
    /\ Serving /\ req[r].step \in {"done", "panicked", "rejected"}
    /\ req' = [req EXCEPT ![r] = IdleReq]
    /\ UNCHANGED <<commit, pc, exit_code, tracer, listening, spans, pools, table>>

\* another client of the database inserts a booking
insert_row(amount) ==
    /\ Len(table) < LIMIT + ExtraRows
    /\ table' = Append(table, Row(Len(table) + 1, amount))
    /\ UNCHANGED <<commit, pc, exit_code, tracer, listening, spans, pools, req>>

----------------------------------------------------------------------------
(* The service from its start, with requests of every method and path *)

\* header names and values (a value is a sequence of bytes; "xFF" is no UTF-8)
HeaderNames == {"host", "accept"}
HeaderValues == {<<"a">>, <<"b">>, <<"xFF">>}
Header == HeaderNames \X HeaderValues

RECURSIVE SeqsUpTo(_, _)
SeqsUpTo(S, n) ==
    IF n = 0 THEN {<<>>}
    ELSE LET shorter == SeqsUpTo(S, n - 1)
         IN  shorter \cup {Append(q, x) : q \in {t \in shorter : Len(t) = n - 1}, x \in S}

\* the headers of a request in the scenarios that do not vary them
SomeHeaders == << <<"host", <<"a">> >>, <<"accept", <<"b">> >>, <<"host", <<"b">> >> >>

Slots(n) == 1..n

Start(n, c) ==
    /\ commit = c
    /\ pc = "init_tracer"
    /\ exit_code = -1
    /\ tracer = "none"
    /\ listening = FALSE
    /\ spans = NoSpans
    /\ pools = [p \in {MainPool} \cup Slots(n) |-> ClosedPool]
    /\ table = Fixture
    /\ req = [r \in Slots(n) |-> IdleReq]

\* the state main reaches when the tracer, the command line, the pool and the
\* port are all fine: the service is up and no request has arrived
Up(n, c, t) ==
    /\ commit = c
    /\ pc = "serving"
    /\ exit_code = -1
    /\ tracer = "installed"
    /\ listening = TRUE
    /\ spans = NoSpans
    /\ pools = [p \in {MainPool} \cup Slots(n) |->
                  IF p = MainPool THEN ConnectedPool ELSE ClosedPool]
    /\ table = t
    /\ req = [r \in Slots(n) |-> IdleReq]

LongestCommit == <<SubSeq(HashChars, 1, MaxHashLen)>>

Init == \E c \in Commits : Start(NumReq, c)

Main ==
    \/ \E ok \in BOOLEAN : init_tracer(ok)
    \/ \E a \in {"port", "help", "version", "bad"} : get_matches(a)
    \/ \E ok \in BOOLEAN : connect(ok)
    \/ \E ok \in BOOLEAN : bind(ok)
    \/ run_returns
    \/ shutdown_tracer_provider
    \/ main_returns

Next ==
    \/ Main
    \/ export
    \/ reap
    \/ \E r \in DOMAIN req :
        \/ \E m \in Methods, p \in Paths : accept(r, m, p, SomeHeaders)
        \/ log_headers(r)
        \/ \E o \in {"", "1.2.3.4"} : hello(r, o)
        \/ health(r)
        \/ \E ok \in BOOLEAN : query(r, ok)
        \/ \E t \in {"first", "last"} : fetch(r, t)
        \/ \E keep \in BOOLEAN : fetch_fails(r, keep)

Spec == Init /\ [][Next]_vars

----------------------------------------------------------------------------
(* The service up, with all but one connection of the pool checked out by
   /query requests that are at the database, and more /query requests
   arriving than the pool has connections left *)

AtDatabase ==
    [IdleReq EXCEPT !.method = "GET", !.path = <<"query">>, !.handler = "query",
                    !.ran = <<"query">>, !.step = "fetch"]

InitPool ==
    /\ commit = LongestCommit
    /\ pc = "serving"
    /\ exit_code = -1
    /\ tracer = "installed"
    /\ listening = TRUE
    /\ spans = NoSpans
    /\ pools = [p \in {MainPool} \cup Slots(MAX_CONNECTIONS + ExtraReq) |->
                  IF p = MainPool
                  THEN [open |-> TRUE, idle |-> 0, busy |-> Slots(MAX_CONNECTIONS - 1)]
                  ELSE ClosedPool]
    /\ table = Fixture
    /\ req = [r \in Slots(MAX_CONNECTIONS + ExtraReq) |->
                IF r < MAX_CONNECTIONS THEN AtDatabase ELSE IdleReq]

NextPool ==
    \/ reap
    \/ tick
    \/ \E r \in DOMAIN req :
        \/ accept(r, "GET", <<"query">>, <<>>)
        \/ \E ok \in BOOLEAN : query(r, ok)
        \/ acquire(r)
        \/ acquire_timeout(r)
        \/ \E t \in {"first", "last"} : fetch(r, t)
        \/ \E keep \in BOOLEAN : fetch_fails(r, keep)

SpecPool == InitPool /\ [][NextPool]_vars

\* a step of a request that has arrived, or of the clock
Progress ==
    \/ tick
    \/ \E r \in DOMAIN req :
        \/ \E ok \in BOOLEAN : query(r, ok)
        \/ acquire(r)
        \/ acquire_timeout(r)
        \/ \E t \in {"first", "last"} : fetch(r, t)

\* the runtime runs a task that can run, the timers fire, and the database
\* answers: while a step of a request is possible, one is taken
FairPool == WF_vars(Progress)

FairSpecPool == SpecPool /\ FairPool

----------------------------------------------------------------------------
(* The service up, one /query after another over a growing bookings table *)

Amounts == {10000, 50000}

InitQuery == Up(1, LongestCommit, <<>>)

NextQuery ==
    \/ \E a \in Amounts : insert_row(a)
    \/ \E r \in DOMAIN req :
        \/ accept(r, "GET", <<"query">>, <<>>)
        \/ \E ok \in BOOLEAN : query(r, ok)
        \/ \E t \in {"first", "last"} : fetch(r, t)
        \/ next_request(r)

SpecQuery == InitQuery /\ [][NextQuery]_vars

----------------------------------------------------------------------------
(* The service up, one GET / with any list of headers *)

InitHeaders == Up(1, LongestCommit, Fixture)

NextHeaders ==
    \/ export
    \/ \E r \in DOMAIN req :
        \/ \E h \in SeqsUpTo(Header, MaxHeaders) : accept(r, "GET", <<>>, h)
        \/ log_headers(r)
        \/ \E o \in {"", "1.2.3.4"} : hello(r, o)

SpecHeaders == InitHeaders /\ [][NextHeaders]_vars

----------------------------------------------------------------------------
(* Properties *)

FirstSegment(p) == IF Len(p) >= 1 THEN p[1] ELSE ""
Arrived(r) == req[r].step # "idle"
Ended(r) == req[r].step \in {"done", "panicked", "rejected"}
HealthDone(r) == FirstSegment(req[r].path) = "health" /\ req[r].step = "done"

\* the segment of an X-App value after "name:version:"
ShortSegment(v) == SubSeq(v, 5, Len(v))

\* the string the build knows its commit by
BuildHash == IF commit = <<>> THEN <<":", "-", "(">> ELSE commit[1]

\* C1: a request to /health, of any method and whatever else is in flight, is
\* never rejected and never fails; its response is status 200, an X-App header
\* name:version:short-hash and the commit hash (or the placeholder) as body, the
\* same for every such request.
C1_HealthSameForAnyMethod ==
    /\ \A r \in DOMAIN req :
        FirstSegment(req[r].path) = "health" =>
            /\ req[r].step \in {"handler", "done"}
            /\ req[r].handler = "health"
            /\ req[r].step = "done" =>
                /\ req[r].resp.status = 200
                /\ req[r].resp.header = <<"X-App">>
                /\ SubSeq(req[r].resp.value, 1, 4) = <<"name", ":", "version", ":">>
                /\ LET sh == ShortSegment(req[r].resp.value)
                   IN  sh = <<>> \/ (Len(sh) = 7 /\ sh = SubSeq(BuildHash, 1, 7))
                /\ req[r].resp.body = BuildHash
    /\ \A r1, r2 \in DOMAIN req :
        HealthDone(r1) /\ HealthDone(r2) => req[r1].resp = req[r2].resp

\* C1 witness: a POST to /health is answered while a /query of another
\* connection is at the database
C1_Witness ==
    \E r1, r2 \in DOMAIN req :
        /\ HealthDone(r1) /\ req[r1].method = "POST"
        /\ req[r2].handler = "query" /\ req[r2].step = "fetch"

\* C2: the short-commit segment of X-App is the first 7 characters of the
\* commit hash when the hash has at least 7 characters, and empty only when it
\* is shorter; a hash of exactly 7 characters yields those 7 characters.
C2_ShortHashIsFirstSeven ==
    \A r \in DOMAIN req :
        HealthDone(r) =>
            ShortSegment(req[r].resp.value) =
                IF Len(BuildHash) >= 7 THEN SubSeq(BuildHash, 1, 7) ELSE <<>>

Min(a, b) == IF a < b THEN a ELSE b

\* what a successful /query answers over the bookings table t
TopOfTable(b, t) ==
    /\ Len(b) <= 10
    /\ Len(b) = Min(10, Len(t))
    /\ \A i, j \in DOMAIN b : i < j => b[i].total >= b[j].total
    /\ \A i, j \in DOMAIN b : i # j => b[i].id # b[j].id
    /\ \A i \in DOMAIN b : \E k \in DOMAIN t :
        b[i] = [id |-> t[k].book_ref, date |-> t[k].book_date,
                total |-> t[k].total_amount]
    /\ \A k \in DOMAIN t :
        (\A i \in DOMAIN b : b[i].id # t[k].book_ref) =>
            \A i \in DOMAIN b : b[i].total >= t[k].total_amount

\* C3: whatever the bookings table holds, the answer of a successful /query
\* has min(10, n) records, sorted by total descending (each total >= the next),
\* each an unchanged row (id = book_ref, date = book_date, total = total_amount)
\* of the table, no row twice, and no row left out has a larger total than a
\* row returned.
C3_QueryTopTen ==
    [][\A r \in DOMAIN req :
        (req[r].step = "fetch" /\ req'[r].step = "done") =>
            TopOfTable(req'[r].resp.body, table)]_vars

\* C3 witness: a table of more than 10 rows was queried and the 10 records
\* returned do not all have the same total
C3_Witness ==
    \E r \in DOMAIN req :
        /\ req[r].step = "done" /\ req[r].handler = "query"
        /\ Len(table) > 10
        /\ Len(req[r].resp.body) = 10
        /\ req[r].resp.body[1].total > req[r].resp.body[10].total

RECURSIVE SumSizes(_)
SumSizes(P) ==
    IF P = {} THEN 0
    ELSE LET p == CHOOSE x \in P : TRUE
         IN  Size(pools[p]) + SumSizes(P \ {p})

\* C4: under any interleaving of /query requests the connections open at the
\* same time never exceed 5, and every handler draws from the one pool main
\* built: a request at the database holds a connection of that pool, and no
\* other pool has a connection.
C4_PoolNeverExceedsMax ==
    /\ SumSizes(DOMAIN pools) <= 5
    /\ \A p \in DOMAIN pools : p # 0 => Size(pools[p]) = 0
    /\ \A r \in DOMAIN req : req[r].step = "fetch" <=> r \in pools[0].busy

\* C4 witness: all 5 connections are checked out and a further request waits
C4_Witness ==
    /\ Cardinality(pools[0].busy) = 5
    /\ \E r \in DOMAIN req : req[r].step = "acquire" /\ req[r].waited > 0

InQuery(r) == req[r].handler = "query" /\ req[r].step \in {"handler", "acquire", "fetch"}

StartupInvariant ==
    /\ pools[0].open => tracer # "none"
    /\ listening => pools[0].open /\ tracer # "none"
    /\ (\E r \in DOMAIN req : Arrived(r)) => listening
    /\ (~Running /\ pc \in {"init_tracer", "get_matches", "connect", "serve"}) =>
            ~listening /\ \A r \in DOMAIN req : ~Arrived(r)
    /\ (~Running /\ pc \in {"init_tracer", "connect", "serve"}) => exit_code # 0
    /\ (~Running /\ pc = "init_tracer") => tracer = "none"
    /\ (~Running /\ pc = "connect") => ~pools[0].open

\* C6 as stated: requests are served only after the tracer and then the pool are
\* up; a failure of the tracer, of the pool or of the bind ends the process with
\* a non-zero code before any request; the exit code is 0 only on clean shutdown.
C6_ExitZeroOnlyOnCleanShutdown ==
    /\ StartupInvariant
    /\ exit_code = 0 => (pc = "return" /\ listening /\ tracer = "shutdown")

\* C6 amended: as above, but the exit code is 0 on clean shutdown and also when
\* the command line asks for the help or the version, which exits before the
\* pool is connected and before any request.
C6_ExitZeroOnShutdownOrHelp ==
    /\ StartupInvariant
    /\ exit_code = 0 =>
        \/ pc = "return" /\ listening /\ tracer = "shutdown"
        \/ pc = "get_matches" /\ ~listening /\ ~pools[0].open
    /\ (~Running /\ pc = "get_matches") => exit_code \in {0, 2}

\* C6 witness: the process has exited 0 after it served a request
C6_Witness ==
    /\ exit_code = 0 /\ pc = "return"
    /\ \E r \in DOMAIN req : req[r].step = "done"

\* C7: header logging has run exactly once, with its span ended and its line
\* printed, before the greeting handler starts and for every request that
\* reaches it; it has not run for a request of the query or health handler or
\* for a rejected one; it leaves the request without a response, and the
\* response is the greeting page whatever the headers were.
C7_LogHeadersOnceBeforeHello ==
    /\ \A r \in DOMAIN req :
        /\ req[r].logged <= 1
        /\ req[r].step = "log_headers" =>
                req[r].logged = 0 /\ req[r].ran = <<>> /\ req[r].handler = "hello"
        /\ (req[r].handler = "hello" /\ req[r].step \in {"handler", "done", "panicked"}) =>
                req[r].logged = 1
        /\ req[r].ran = <<"hello">> => req[r].logged = 1
        /\ req[r].handler \in {"query", "health"} => req[r].logged = 0
        /\ req[r].step = "rejected" => req[r].logged = 0
        /\ (req[r].logged = 1 /\ req[r].ran = <<>>) => req[r].resp.status = 0
        /\ (req[r].handler = "hello" /\ req[r].step = "done") =>
                /\ req[r].resp.status = 200
                /\ req[r].resp.value = <<"text/html">>
                /\ \E o \in {"1.2.3.4"} :
                    req[r].resp.body = <<"<html><body>Hi: ", o, "</body></html>">>
    /\ spans.ended = Cardinality({r \in DOMAIN req : req[r].logged = 1})

\* C7 witness: a greeting was answered after its headers were logged, and a
\* /query was answered without
C7_Witness ==
    \E r1, r2 \in DOMAIN req :
        /\ req[r1].handler = "hello" /\ req[r1].step = "done" /\ req[r1].logged = 1
        /\ req[r2].handler = "query" /\ req[r2].step = "done" /\ req[r2].logged = 0

FirstOf(h, k) == CHOOSE i \in DOMAIN h : h[i][1] = k /\ \A j \in DOMAIN h : h[j][1] = k => i <= j

\* C9: the header map built by header logging has exactly one entry per
\* distinct header name of the request, and the entry of a name holds the value
\* of the first header of that name (as text: its bytes that are UTF-8 are kept),
\* whatever values later headers of the name have.
C9_HeaderMapFirstSeenWins ==
    \A r \in DOMAIN req :
        req[r].logged = 1 =>
            LET h == req[r].headers
                m == req[r].header_hashmap
            IN  /\ DOMAIN m = {h[i][1] : i \in DOMAIN h}
                /\ \A k \in DOMAIN m :
                    LET v == h[FirstOf(h, k)][2]
                    IN  /\ Len(m[k]) = Len(v)
                        /\ \A j \in DOMAIN v : v[j] # "xFF" => m[k][j] = v[j]
                        /\ \A j \in DOMAIN v : v[j] = "xFF" => m[k][j] = "uFFFD"

\* C9 witness: headers were logged of a request where a name occurs twice,
\* with two values
C9_Witness ==
    \E r \in DOMAIN req :
        /\ req[r].logged = 1
        /\ \E i, j \in DOMAIN req[r].headers :
            /\ i < j
            /\ req[r].headers[i][1] = req[r].headers[j][1]
            /\ req[r].headers[i][2] # req[r].headers[j][2]

\* the handler the routes give a request of method m and path p
Expected(m, p) ==
    IF FirstSegment(p) = "health" THEN "health"
    ELSE IF m = "GET" /\ FirstSegment(p) = "query" THEN "query"
    ELSE IF m = "GET" THEN "hello"
    ELSE "none"

\* C10: a request is dispatched by first match in the order health, query,
\* greeting: first segment health, any method, is the health handler's;
\* otherwise a GET with first segment query is the query handler's; otherwise
\* any GET is the greeting handler's; any other request is rejected, with no
\* handler and no header logging run. At most one handler runs per request.
C10_FirstMatchDispatch ==
    \A r \in DOMAIN req :
        Arrived(r) =>
            LET e == Expected(req[r].method, req[r].path)
            IN  /\ req[r].step = "rejected" <=> e = "none"
                /\ req[r].step # "rejected" => req[r].handler = e
                /\ req[r].step = "rejected" =>
                        req[r].ran = <<>> /\ req[r].logged = 0 /\ req[r].handler = "-"
                /\ req[r].ran \in {<<>>, <<req[r].handler>>}
                /\ req[r].step = "done" => req[r].ran = <<e>>

\* C10 witness: a POST to /query has been rejected and a GET of /query has been
\* answered by the query handler
C10_Witness ==
    \E r1, r2 \in DOMAIN req :
        /\ req[r1].method = "POST" /\ req[r1].path = <<"query">>
        /\ req[r1].step = "rejected"
        /\ req[r2].method = "GET" /\ req[r2].path = <<"query">>
        /\ req[r2].step = "done" /\ req[r2].ran = <<"query">>

====
